---- MODULE Spec2Model ----
(***************************************************************************)
(* A model of the lox front end: the recursive-descent parser of           *)
(* src/src/parsing.rs with its scope chain, and the tree-walking evaluator *)
(* of src/src/evaluating.rs.  Every parser function is an operator of the  *)
(* same name taking the parser's mutable fields (current, scope, and the   *)
(* lines it has written to standard output) and returning a result record. *)
(* The driver is the one of the repository's tests: parse, then evaluate   *)
(* the returned nodes in order.                                            *)
(***************************************************************************)
EXTENDS Integers, Sequences, FiniteSets, TLC

VARIABLES
    content,    \* the source text read by lexing: a sequence of characters
    lexed,      \* the Vec<TokenType> lexing returned, whitespace tokens included
    tokens,     \* Parser.tokens: the filtered token sequence (read-only)
    current,    \* Parser.current: 0-based index of the token under the cursor
    scope,      \* Parser.scope: the innermost Scope, linked to its parents
    vec,        \* the node list built by Parser::program
    stdout,     \* the lines written to standard output so far
    pc,         \* where the driver is
    results     \* the EvaluateResult of every node the driver has evaluated

vars == <<content, lexed, tokens, current, scope, vec, stdout, pc, results>>

(***************************************************************************)
(* Tokens (src/src/token.rs).  A token is a tuple whose first element is   *)
(* the variant's name; equality of tuples is TokenType's PartialEq.        *)
(***************************************************************************)
LeftParen == <<"LeftParen">>
RightParen == <<"RightParen">>
LeftBrace == <<"LeftBrace">>
RightBrace == <<"RightBrace">>
Minus == <<"Minus">>
Plus == <<"Plus">>
Semicolon == <<"Semicolon">>
Star == <<"Star">>
Bang == <<"Bang">>
BangEqual == <<"BangEqual">>
Equal == <<"Equal">>
EqualEqual == <<"EqualEqual">>
Greater == <<"Greater">>
GreaterEqual == <<"GreaterEqual">>
Less == <<"Less">>
LessEqual == <<"LessEqual">>
Slash == <<"Slash">>
Comma == <<"Comma">>
Dot == <<"Dot">>
Space == <<"Space">>
Tab == <<"Tab">>
NewLine == <<"NewLine">>
Integer(i) == <<"Integer", i>>
Float(f) == <<"Float", f>>
NumberTok(n) == <<"Number", n>>
StringTok(s) == <<"String", s>>
Identifier(name) == <<"Identifier", name>>
KeyWord(k) == <<"KeyWord", k>>

(***************************************************************************)
(* AST nodes (src/src/ast.rs; Or and And as built in src/src/parsing.rs).  *)
(* An Option<Box<AstNode>> is a sequence of length 0 or 1.                 *)
(***************************************************************************)
AstNil == [type |-> "Nil"]
AstBoolean(v) == [type |-> "Boolean", v |-> v]
AstNumber(n) == [type |-> "Number", v |-> n]
AstString(s) == [type |-> "String", v |-> s]
Binary(left, operator, right) ==
    [type |-> "Binary", left |-> left, operator |-> operator, right |-> right]
Unary(operator, operand) ==
    [type |-> "Unary", operator |-> operator, operand |-> operand]
Group(inner) == [type |-> "Group", inner |-> inner]
PrintStmt(expr) == [type |-> "Print", expr |-> expr]
Variable(name, value) == [type |-> "Variable", name |-> name, value |-> value]
Block(nodes) == [type |-> "Block", nodes |-> nodes]
If(condition, exec_branch) ==
    [type |-> "If", condition |-> condition, exec_branch |-> exec_branch]
Or(left, right) == [type |-> "Or", left |-> left, right |-> right]
And(left, right) == [type |-> "And", left |-> left, right |-> right]

(***************************************************************************)
(* Runtime values (enum EvaluateResult) and the outcome of an evaluation:  *)
(* evaluate either returns a value or panics.                              *)
(***************************************************************************)
BooleanVal(b) == <<"Boolean", b>>
NumberVal(n) == <<"Number", n>>
StringVal(s) == <<"String", s>>
NilVal == <<"Nil">>

Returned(v) == [st |-> "ok", v |-> v, msg |-> ""]
Panicked(msg) == [st |-> "panic", v |-> NilVal, msg |-> msg]

(***************************************************************************)
(* Number (src/src/token.rs): Integer(i64) or Float(f64); same-kind        *)
(* arithmetic, a panic on mixed kinds.  An Integer's payload is an         *)
(* integer.  A Float's payload is a pair <<n, d>>: the value n/d in lowest *)
(* terms with d > 0, or, with d = 0, an infinity (n = 1 or -1) or NaN      *)
(* (n = 0).  The literals of the model are dyadic, so that sums, products  *)
(* and differences are the exact f64 results.                              *)
(***************************************************************************)
RECURSIVE Gcd(_, _)
Gcd(a, b) == IF b = 0 THEN a ELSE Gcd(b, a % b)

Abs(x) == IF x < 0 THEN -x ELSE x
Sign(x) == IF x < 0 THEN -1 ELSE IF x = 0 THEN 0 ELSE 1

\* the f64 with value n/d (d may be negative or zero)
Ratio(n, d) ==
    IF d = 0 THEN <<Sign(n), 0>>
    ELSE LET g == Gcd(Abs(n), Abs(d))
         IN  <<(Sign(d) * n) \div g, Abs(d) \div g>>

NaN == <<0, 0>>
Finite(x) == x[2] # 0

F64Add(x, y) ==
    IF Finite(x) /\ Finite(y) THEN Ratio(x[1] * y[2] + y[1] * x[2], x[2] * y[2])
    ELSE IF x = NaN \/ y = NaN THEN NaN
    ELSE IF Finite(x) THEN y
    ELSE IF Finite(y) THEN x
    ELSE IF x = y THEN x ELSE NaN

F64Neg(x) == <<-x[1], x[2]>>

F64Mul(x, y) ==
    IF Finite(x) /\ Finite(y) THEN Ratio(x[1] * y[1], x[2] * y[2])
    ELSE IF x = NaN \/ y = NaN THEN NaN
    ELSE <<Sign(x[1]) * Sign(y[1]), 0>>

F64Div(x, y) ==
    IF x = NaN \/ y = NaN THEN NaN
    ELSE IF ~Finite(x) /\ ~Finite(y) THEN NaN
    ELSE IF ~Finite(y) THEN <<0, 1>>
    ELSE IF ~Finite(x) THEN <<x[1] * (IF y[1] < 0 THEN -1 ELSE 1), 0>>
    ELSE Ratio(x[1] * y[2], x[2] * y[1])

\* f64::partial_cmp: "lt", "eq", "gt", or "none" when an operand is NaN
F64PartialCmp(x, y) ==
    IF x = NaN \/ y = NaN THEN "none"
    ELSE IF x = y THEN "eq"
    ELSE IF ~Finite(x) THEN (IF x[1] < 0 THEN "lt" ELSE "gt")
    ELSE IF ~Finite(y) THEN (IF y[1] < 0 THEN "gt" ELSE "lt")
    ELSE IF x[1] * y[2] < y[1] * x[2] THEN "lt" ELSE "gt"

\* Rust's integer division truncates toward zero
TruncDiv(x, y) == Sign(x) * Sign(y) * (Abs(x) \div Abs(y))

SameKind(a, b) == a[1] = b[1]

\* an Add that widens the Integer of a mixed pair to a Float
NumberAdd_widen(a, b) ==
    LET f(n) == IF n[1] = "Integer" THEN <<n[2], 1>> ELSE n[2]
    IN  IF SameKind(a, b) /\ a[1] = "Integer"
        THEN Returned(NumberVal(Integer(a[2] + b[2])))
        ELSE Returned(NumberVal(Float(F64Add(f(a), f(b)))))

\* impl Add for Number
NumberAdd(a, b) ==
    IF ~SameKind(a, b) THEN Panicked("Cannot add integer and float")
    ELSE IF a[1] = "Integer" THEN Returned(NumberVal(Integer(a[2] + b[2])))
    ELSE Returned(NumberVal(Float(F64Add(a[2], b[2]))))

\* impl Sub for Number
NumberSub(a, b) ==
    IF ~SameKind(a, b) THEN Panicked("Cannot subtract integer and float")
    ELSE IF a[1] = "Integer" THEN Returned(NumberVal(Integer(a[2] - b[2])))
    ELSE Returned(NumberVal(Float(F64Add(a[2], F64Neg(b[2])))))

\* impl Mul for Number
NumberMul(a, b) ==
    IF ~SameKind(a, b) THEN Panicked("Cannot multiply integer and float")
    ELSE IF a[1] = "Integer" THEN Returned(NumberVal(Integer(a[2] * b[2])))
    ELSE Returned(NumberVal(Float(F64Mul(a[2], b[2]))))

\* impl Div for Number: i1 / i2 panics when i2 is zero
NumberDiv(a, b) ==
    IF ~SameKind(a, b) THEN Panicked("Cannot divide integer and float")
    ELSE IF a[1] = "Integer" THEN
        IF b[2] = 0 THEN Panicked("attempt to divide by zero")
        ELSE Returned(NumberVal(Integer(TruncDiv(a[2], b[2]))))
    ELSE Returned(NumberVal(Float(F64Div(a[2], b[2]))))

\* impl Neg for Number
NumberNeg(a) == IF a[1] = "Integer" THEN Integer(-a[2]) ELSE Float(F64Neg(a[2]))

\* impl PartialOrd for Number: a panic on mixed kinds
NumberPartialCmp(a, b) ==
    IF ~SameKind(a, b) THEN Panicked("Cannot compare integer and float")
    ELSE IF a[1] = "Integer" THEN
        Returned(IF a[2] < b[2] THEN "lt" ELSE IF a[2] = b[2] THEN "eq" ELSE "gt")
    ELSE Returned(F64PartialCmp(a[2], b[2]))

\* impl PartialEq for Number: mixed kinds are unequal, NaN equals nothing
NumberEq(a, b) ==
    /\ SameKind(a, b)
    /\ IF a[1] = "Integer" THEN a[2] = b[2] ELSE F64PartialCmp(a[2], b[2]) = "eq"

\* left > right and its like: true when partial_cmp is one of `accepted`
NumberCompare(a, b, accepted) ==
    LET c == NumberPartialCmp(a, b)
    IN  IF c.st = "ok" THEN Returned(BooleanVal(c.v \in accepted)) ELSE c

(***************************************************************************)
(* Display (src/src/token.rs).  A character is a string of length one and  *)
(* a text is a string; the display form of a token is a text.              *)
(***************************************************************************)
DigitChars == <<"0", "1", "2", "3", "4", "5", "6", "7", "8", "9">>

\* the decimal digits of a natural number
RECURSIVE NatText(_)
NatText(n) ==
    IF n < 10 THEN DigitChars[n + 1]
    ELSE NatText(n \div 10) \o DigitChars[(n % 10) + 1]

\* the digits of the fraction r/d (0 <= r < d), as many as its decimal
\* expansion has; the floats of the model are decimal fractions
RECURSIVE FractionText(_, _)
FractionText(r, d) ==
    IF r = 0 THEN ""
    ELSE DigitChars[((r * 10) \div d) + 1] \o FractionText((r * 10) % d, d)

\* impl Display for Number: `{}` of the i64, or of the f64, which is the
\* shortest decimal that reads back as the same value, with no fraction
\* when the value is whole
NumberText(n) ==
    IF n[1] = "Integer"
    THEN (IF n[2] < 0 THEN "-" ELSE "") \o NatText(Abs(n[2]))
    ELSE IF n[2] = NaN THEN "NaN"
    ELSE IF ~Finite(n[2]) THEN (IF n[2][1] < 0 THEN "-inf" ELSE "inf")
    ELSE (IF n[2][1] < 0 THEN "-" ELSE "")
            \o NatText(Abs(n[2][1]) \div n[2][2])
            \o (IF Abs(n[2][1]) % n[2][2] = 0 THEN ""
                ELSE "." \o FractionText(Abs(n[2][1]) % n[2][2], n[2][2]))

\* the keywords: variant name and text (KeyWord::from_str, Display for KeyWord)
KeyWords ==
    { <<"And", "and">>, <<"Class", "class">>, <<"Else", "else">>,
      <<"False", "false">>, <<"Fun", "fun">>, <<"For", "for">>, <<"If", "if">>,
      <<"Nil", "nil">>, <<"Or", "or">>, <<"Print", "print">>,
      <<"Return", "return">>, <<"Super", "super">>, <<"This", "this">>,
      <<"True", "true">>, <<"Var", "var">>, <<"While", "while">> }

\* impl Display for TokenType, and for KeyWord in its last arm
to_string(token) ==
    CASE token = LeftParen -> "("
      [] token = RightParen -> ")"
      [] token = LeftBrace -> "{"
      [] token = RightBrace -> "}"
      [] token = Comma -> ","
      [] token = Dot -> "."
      [] token = Minus -> "-"
      [] token = Plus -> "+"
      [] token = Semicolon -> ";"
      [] token = Star -> "*"
      [] token = Bang -> "!"
      [] token = BangEqual -> "!="
      [] token = Equal -> "="
      [] token = EqualEqual -> "=="
      [] token = Greater -> ">"
      [] token = GreaterEqual -> ">="
      [] token = Less -> "<"
      [] token = LessEqual -> "<="
      [] token = Slash -> "/"
      [] token = Space -> " "
      [] token = Tab -> "\t"
      [] token = NewLine -> "\n"
      [] token[1] = "String" -> token[2]
      [] token[1] = "Number" -> NumberText(token[2])
      [] token[1] = "Identifier" -> token[2]
      [] token[1] = "KeyWord" -> (CHOOSE kw \in KeyWords : kw[1] = token[2])[2]

(***************************************************************************)
(* lexing (src/src/lexing.rs).  iter is the 1-based index of the character *)
(* that iter.peek() returns; peek is None when iter is past the end.  One  *)
(* iteration of the outer loop returns [st, push, iter]: the tokens it     *)
(* pushed and the index it left the iterator at, or st = "err".            *)
(***************************************************************************)
is_ascii_alphabetic(c) ==
    c \in
    { "a", "b", "c", "d", "e", "f", "g", "h", "i", "j", "k", "l", "m",
      "n", "o", "p", "q", "r", "s", "t", "u", "v", "w", "x", "y", "z",
      "A", "B", "C", "D", "E", "F", "G", "H", "I", "J", "K", "L", "M",
      "N", "O", "P", "Q", "R", "S", "T", "U", "V", "W", "X", "Y", "Z" }

is_ascii_digit(c) == \E i \in 1..10 : DigitChars[i] = c

\* the characters of a sequence, joined into a text
RECURSIVE Text(_)
Text(chars) == IF chars = <<>> THEN "" ELSE Head(chars) \o Text(Tail(chars))

\* iter.peek() at index i: a sequence of length 0 or 1
char_at(source, i) == IF i <= Len(source) THEN <<source[i]>> ELSE <<>>

Lexed(push, iter) == [st |-> "ok", push |-> push, iter |-> iter, msg |-> ""]
LexError(msg) == [st |-> "err", push |-> <<>>, iter |-> 0, msg |-> msg]

\* TokenType::from_char
from_char(c) ==
    CASE c = "(" -> <<LeftParen>>
      [] c = ")" -> <<RightParen>>
      [] c = "{" -> <<LeftBrace>>
      [] c = "}" -> <<RightBrace>>
      [] c = "," -> <<Comma>>
      [] c = "." -> <<Dot>>
      [] c = "-" -> <<Minus>>
      [] c = "+" -> <<Plus>>
      [] c = ";" -> <<Semicolon>>
      [] c = "*" -> <<Star>>
      [] c = "!" -> <<Bang>>
      [] c = "=" -> <<Equal>>
      [] c = ">" -> <<Greater>>
      [] c = "<" -> <<Less>>
      [] c = "/" -> <<Slash>>
      [] c = " " -> <<Space>>
      [] c = "\t" -> <<Tab>>
      [] c = "\n" -> <<NewLine>>
      [] OTHER -> <<>>

\* TokenType::is_skippable
is_skippable(token) == token \in {Space, Tab, NewLine}

\* the arms of = ! > < without their peek: the one-character token always
lex_operator_single(source, i, one, two) == Lexed(<<one>>, i + 1)

\* the arms of = ! > <: the two-character token when = follows
lex_operator(source, i, one, two) ==
    IF char_at(source, i + 1) = <<"=">> THEN Lexed(<<two>>, i + 2)
    ELSE Lexed(<<one>>, i + 1)

\* the loop of the // arm: the index of the next newline, or of the end
RECURSIVE comment_end(_, _)
comment_end(source, i) ==
    IF i > Len(source) \/ source[i] = "\n" THEN i
    ELSE comment_end(source, i + 1)

\* the loop of the string arm from index i: the index of the closing
\* quote, or one past the end when there is none
RECURSIVE string_end(_, _)
string_end(source, i) ==
    IF i > Len(source) \/ source[i] = "\"" THEN i
    ELSE string_end(source, i + 1)

lex_string(source, i) ==
    IF string_end(source, i + 1) > Len(source) THEN LexError("UnterminatedString")
    ELSE Lexed(<<StringTok(Text(SubSeq(source, i + 1, string_end(source, i + 1) - 1)))>>,
               string_end(source, i + 1) + 1)

\* the loop of the number arm: [ok, iter, is_float], ok false on a second dot
RECURSIVE number_end(_, _, _)

\* the number loop without its check on is_float: any number of dots
RECURSIVE number_end_lenient(_, _, _)
number_end_lenient(source, i, is_float) ==
    IF i <= Len(source) /\ is_ascii_digit(source[i])
    THEN number_end_lenient(source, i + 1, is_float)
    ELSE IF i <= Len(source) /\ source[i] = "."
    THEN number_end_lenient(source, i + 1, TRUE)
    ELSE [ok |-> TRUE, iter |-> i, is_float |-> is_float]

number_end(source, i, is_float) ==
    IF i <= Len(source) /\ is_ascii_digit(source[i])
    THEN number_end(source, i + 1, is_float)
    ELSE IF i <= Len(source) /\ source[i] = "."
    THEN IF is_float THEN [ok |-> FALSE, iter |-> i, is_float |-> TRUE]
         ELSE number_end(source, i + 1, TRUE)
    ELSE [ok |-> TRUE, iter |-> i, is_float |-> is_float]

\* str::parse::<i64> on a run of digits is an Err when the number is above
\* i64::MAX = 9223372036854775807: more than 19 digits after the leading
\* zeros, or 19 digits that are above the digits of i64::MAX
i64_overflows(digits) ==
    LET max == <<9, 2, 2, 3, 3, 7, 2, 0, 3, 6, 8, 5, 4, 7, 7, 5, 8, 0, 7>>
        zeros == IF \A k \in 1..Len(digits) : digits[k] = "0" THEN Len(digits)
                 ELSE (CHOOSE k \in 1..Len(digits) :
                        digits[k] # "0" /\ \A j \in 1..(k - 1) : digits[j] = "0") - 1
        d == [k \in 1..(Len(digits) - zeros) |->
                CHOOSE v \in 0..9 : DigitChars[v + 1] = digits[zeros + k]]
    IN  \/ Len(d) > Len(max)
        \/ /\ Len(d) = Len(max)
           /\ \E k \in 1..Len(max) :
                d[k] > max[k] /\ \A j \in 1..(k - 1) : d[j] = max[j]

\* the Ok value of str::parse::<i64> on a run of digits (the runs of the
\* model that fit an i64 have a few digits)
RECURSIVE parse_i64(_)
parse_i64(digits) ==
    IF digits = <<>> THEN 0
    ELSE parse_i64(SubSeq(digits, 1, Len(digits) - 1)) * 10
            + (CHOOSE d \in 0..9 : DigitChars[d + 1] = digits[Len(digits)])

RECURSIVE Pow10(_)
Pow10(k) == IF k = 0 THEN 1 ELSE 10 * Pow10(k - 1)

\* str::parse::<f64> on digits with one dot in them
parse_f64(run) ==
    LET dot == CHOOSE i \in 1..Len(run) : run[i] = "."
        digits == SelectSeq(run, is_ascii_digit)
    IN  Ratio(parse_i64(digits), Pow10(Len(run) - dot))

\* the number arm, given where its loop ended
lex_number(source, i, end) ==
    IF ~end.ok THEN LexError("DoubleDot")
    ELSE IF end.is_float
    THEN Lexed(<<NumberTok(Float(parse_f64(SubSeq(source, i, end.iter - 1))))>>,
               end.iter)
    ELSE IF i64_overflows(SubSeq(source, i, end.iter - 1))
    THEN LexError("Parse Error")
    ELSE Lexed(<<NumberTok(Integer(parse_i64(SubSeq(source, i, end.iter - 1))))>>,
               end.iter)

\* the loop of the identifier arm
RECURSIVE identifier_end(_, _)
identifier_end(source, i) ==
    IF i <= Len(source)
        /\ (is_ascii_alphabetic(source[i]) \/ is_ascii_digit(source[i])
                \/ source[i] = "_")
    THEN identifier_end(source, i + 1)
    ELSE i

\* KeyWord::from_str, then the choice between KeyWord and Identifier
lex_word(word, end) ==
    IF \E kw \in KeyWords : kw[2] = word
    THEN Lexed(<<KeyWord((CHOOSE kw \in KeyWords : kw[2] = word)[1])>>, end)
    ELSE Lexed(<<Identifier(word)>>, end)

\* one iteration of `while let Some(&c) = iter.peek()`: the match on c
lex_one(source, i, c) ==
    CASE c = "=" -> lex_operator(source, i, Equal, EqualEqual)
      [] c = "!" -> lex_operator(source, i, Bang, BangEqual)
      [] c = ">" -> lex_operator(source, i, Greater, GreaterEqual)
      [] c = "<" -> lex_operator(source, i, Less, LessEqual)
      [] c = "/" ->
            IF char_at(source, i + 1) = <<"/">>
            THEN Lexed(<<>>, comment_end(source, i + 2))
            ELSE Lexed(<<Slash>>, i + 1)
      [] c = "\"" -> lex_string(source, i)
      [] is_ascii_digit(c) -> lex_number(source, i, number_end(source, i, FALSE))
      [] is_ascii_alphabetic(c) \/ c = "_" ->
            lex_word(Text(SubSeq(source, i, identifier_end(source, i) - 1)),
                     identifier_end(source, i))
      [] c = " " -> Lexed(<<Space>>, i + 1)
      [] c = "\n" -> Lexed(<<NewLine>>, i + 1)
      [] c = "\t" -> Lexed(<<Tab>>, i + 1)
      [] OTHER ->
            IF from_char(c) = <<>> THEN LexError("Scan Error")
            ELSE Lexed(from_char(c), i + 1)

RECURSIVE lexing_loop(_, _, _)

\* vec.push of what the iteration lexed, and the next iteration
lexing_push(source, tokenVec, one) ==
    IF one.st # "ok" THEN [st |-> "err", vec |-> <<>>, msg |-> one.msg]
    ELSE lexing_loop(source, one.iter, tokenVec \o one.push)

lexing_loop(source, i, tokenVec) ==
    IF i > Len(source) THEN [st |-> "ok", vec |-> tokenVec, msg |-> ""]
    ELSE lexing_push(source, tokenVec, lex_one(source, i, source[i]))

\* lexing, on the content of the file
lexing(source) == lexing_loop(source, 1, <<>>)

(***************************************************************************)
(* AstNode::evaluate (src/src/evaluating.rs).  A panic in the evaluation   *)
(* of a child unwinds through its parents: Unwind(r, K) is r when r is a   *)
(* panic and K of r's value otherwise.                                     *)
(***************************************************************************)
Unwind(r, K(_)) == IF r.st # "ok" THEN r ELSE K(r.v)

RECURSIVE evaluate(_)
RECURSIVE evaluate_block(_, _, _)

\* the for loop of the Block arm: result = node.evaluate() for each node
evaluate_block(nodes, i, result) ==
    IF i > Len(nodes) THEN Returned(result)
    ELSE Unwind(evaluate(nodes[i]), LAMBDA v : evaluate_block(nodes, i + 1, v))

\* a match whose == compares the operands of any two kinds
binary_match_any_eq(operator, left, right) ==
    IF operator = "==" THEN Returned(BooleanVal(left = right))
    ELSE IF left[1] = "Number" /\ right[1] = "Number" THEN
        CASE operator = "+" -> NumberAdd(left[2], right[2])
          [] operator = "-" -> NumberSub(left[2], right[2])
          [] OTHER -> Panicked("Invalid operator")
    ELSE IF left[1] = "String" /\ right[1] = "String" /\ operator = "+"
    THEN Returned(StringVal(left[2] \o right[2]))
    ELSE Panicked("Invalid operands")

\* the match on (left, right) and on the operator
binary_match(operator, left, right) ==
    IF left[1] = "Number" /\ right[1] = "Number" THEN
        CASE operator = "+" -> NumberAdd(left[2], right[2])
          [] operator = "-" -> NumberSub(left[2], right[2])
          [] operator = "*" -> NumberMul(left[2], right[2])
          [] operator = "/" -> NumberDiv(left[2], right[2])
          [] operator = ">" -> NumberCompare(left[2], right[2], {"gt"})
          [] operator = "<" -> NumberCompare(left[2], right[2], {"lt"})
          [] operator = "==" -> Returned(BooleanVal(NumberEq(left[2], right[2])))
          [] operator = "!=" -> Returned(BooleanVal(~NumberEq(left[2], right[2])))
          [] operator = ">=" -> NumberCompare(left[2], right[2], {"gt", "eq"})
          [] operator = "<=" -> NumberCompare(left[2], right[2], {"lt", "eq"})
          [] OTHER -> Panicked("Invalid operator")
    ELSE IF left[1] = "String" /\ right[1] = "String" THEN
        CASE operator = "+" -> Returned(StringVal(left[2] \o right[2]))
          [] operator = "==" -> Returned(BooleanVal(left[2] = right[2]))
          [] OTHER -> Panicked("Invalid operator")
    ELSE Panicked("Invalid operands")

evaluate_binary(node) ==
    IF node.type # "Binary" THEN Panicked("Invalid binary node")
    ELSE Unwind(evaluate(node.left), LAMBDA left :
         Unwind(evaluate(node.right), LAMBDA right :
            binary_match(node.operator, left, right)))

\* the match on op and on the operator
unary_match(operator, op) ==
    IF op[1] = "Number" THEN
        IF operator = "-" THEN Returned(NumberVal(NumberNeg(op[2])))
        ELSE Panicked("Invalid operator")
    ELSE IF op[1] = "Boolean" THEN
        IF operator = "!" THEN Returned(BooleanVal(~op[2]))
        ELSE Panicked("Invalid operator")
    ELSE Panicked("Invalid operand")

evaluate_unary(node) ==
    IF node.type # "Unary" THEN Panicked("Invalid unary node")
    ELSE Unwind(evaluate(node.operand), LAMBDA op : unary_match(node.operator, op))

\* the right operand of Or and And
logic_right(right) ==
    IF right[1] = "Boolean" THEN Returned(right)
    ELSE Panicked("Invalid right operand")

\* an Or arm that evaluates the right operand before it looks at the left
or_arm_eager(left, right) ==
    Unwind(right, LAMBDA r :
        IF left = BooleanVal(TRUE) THEN Returned(BooleanVal(TRUE))
        ELSE logic_right(r))

\* the Or arm once left is evaluated; right is what right.evaluate() comes
\* to, and is looked at only when the arm gets to that call
or_arm(left, right) ==
    IF left = BooleanVal(TRUE) THEN Returned(BooleanVal(TRUE))
    ELSE Unwind(right, logic_right)

\* the And arm once left is evaluated
and_arm(left, right) ==
    IF left = BooleanVal(FALSE) THEN Returned(BooleanVal(FALSE))
    ELSE Unwind(right, logic_right)

evaluate(node) ==
    CASE node.type = "Boolean" -> Returned(BooleanVal(node.v))
      [] node.type = "Number" -> Returned(NumberVal(node.v))
      [] node.type = "String" -> Returned(StringVal(node.v))
      [] node.type = "Nil" -> Returned(NilVal)
      [] node.type = "Binary" -> evaluate_binary(node)
      [] node.type = "Unary" -> evaluate_unary(node)
      [] node.type \in {"Group", "Print", "Variable", "If"} ->
            \* the arms that evaluate one child, or yield Nil without one
            LET child == CASE node.type = "Group" -> <<node.inner>>
                           [] node.type = "Print" -> <<node.expr>>
                           [] node.type = "Variable" -> node.value
                           [] node.type = "If" -> node.exec_branch
            IN  IF child # <<>> THEN evaluate(child[1]) ELSE Returned(NilVal)
      [] node.type = "Block" -> evaluate_block(node.nodes, 1, NilVal)
      [] node.type = "Or" ->
            Unwind(evaluate(node.left), LAMBDA left :
                or_arm(left, evaluate(node.right)))
      [] node.type = "And" ->
            Unwind(evaluate(node.left), LAMBDA left :
                and_arm(left, evaluate(node.right)))

(***************************************************************************)
(* Scope (src/src/parsing.rs): a map from names to Variable nodes and an   *)
(* optional parent.                                                        *)
(***************************************************************************)
EmptyVars == [name \in {} |-> AstNil]
RootScope == [parent |-> <<>>, vars |-> EmptyVars]

RECURSIVE Scope_get_var(_, _)
Scope_get_var(self, name) ==
    IF name \in DOMAIN self.vars THEN <<self.vars[name]>>
    ELSE IF self.parent # <<>> THEN Scope_get_var(self.parent[1], name)
    ELSE <<>>

\* the assignment through the reference get_var returned: *old_var = var
RECURSIVE Scope_replace_var(_, _, _)
Scope_replace_var(self, name, var) ==
    IF name \in DOMAIN self.vars THEN [self EXCEPT !.vars[name] = var]
    ELSE [self EXCEPT !.parent = <<Scope_replace_var(self.parent[1], name, var)>>]

\* add_var without the lookup through the parents: always a local insert
Scope_add_var_local(self, var) ==
    IF var.type = "Variable" THEN
        [ok |-> TRUE,
         scope |-> [self EXCEPT !.vars = (var.name :> var) @@ self.vars]]
    ELSE [ok |-> FALSE, scope |-> self]

Scope_add_var(self, var) ==
    IF var.type = "Variable" THEN
        [ok |-> TRUE,
         scope |-> IF Scope_get_var(self, var.name) # <<>>
                   THEN Scope_replace_var(self, var.name, var)
                   ELSE [self EXCEPT !.vars = (var.name :> var) @@ self.vars]]
    ELSE [ok |-> FALSE, scope |-> self]

Scope_expire(self) == IF self.parent # <<>> THEN self.parent[1] ELSE self

Scope_forward(self) == [parent |-> <<self>>, vars |-> EmptyVars]

(***************************************************************************)
(* Parser.  p is the record of the parser's mutable fields, current and    *)
(* scope, with the lines written to standard output.  A parser function    *)
(* returns [st, node, p, msg]: st is "ok" (Ok(node)), "err" (an            *)
(* anyhow::Error with message msg), "panic" (the process aborts), or       *)
(* "diverge" (the call never returns).                                     *)
(***************************************************************************)
Ok(node, p) == [st |-> "ok", node |-> node, p |-> p, msg |-> ""]
Err(msg, p) == [st |-> "err", node |-> AstNil, p |-> p, msg |-> msg]
Panic(msg, p) == [st |-> "panic", node |-> AstNil, p |-> p, msg |-> msg]
Diverge(p) == [st |-> "diverge", node |-> AstNil, p |-> p, msg |-> ""]

AtEnd == "Already at the end of the tokens"

\* get_var that makes up an unset variable for a name it does not find
get_var_or_default(p, name) ==
    IF Scope_get_var(p.scope, name) # <<>> THEN Scope_get_var(p.scope, name)
    ELSE <<Variable(name, <<>>)>>

get_var(p, name) == Scope_get_var(p.scope, name)

add_var(p, var) ==
    LET r == Scope_add_var(p.scope, var)
    IN  [ok |-> r.ok, p |-> [p EXCEPT !.scope = r.scope]]

forward_scope(p) == [p EXCEPT !.scope = Scope_forward(p.scope)]

expire_scope(p) == [p EXCEPT !.scope = Scope_expire(p.scope)]

println(p, line) == [p EXCEPT !.stdout = Append(@, line)]

peek(p) == tokens[p.current + 1]

next(p) ==
    IF p.current = Len(tokens) - 1 THEN <<>> ELSE <<tokens[p.current + 2]>>

\* forward without its test on the end of the tokens
forward_unchecked(p) == [ok |-> TRUE, p |-> [p EXCEPT !.current = @ + 1]]

forward(p) ==
    IF p.current = Len(tokens) - 1 THEN [ok |-> FALSE, p |-> p]
    ELSE [ok |-> TRUE, p |-> [p EXCEPT !.current = @ + 1]]

\* the ? operator on a parser function's result (src/src/parsing.rs, as in
\* `self.declaration()?` at line 137): return r when it is not Ok, go on
\* with its node and the parser's fields otherwise
Try(r, K(_, _)) == IF r.st # "ok" THEN r ELSE K(r.node, r.p)

\* self.forward()?; and what follows it (src/src/parsing.rs, as at line 154)
TryForward(p, K(_)) ==
    IF forward(p).ok THEN K(forward(p).p) ELSE Err(AtEnd, p)

\* let _ = self.forward();
forward_ignored(p) == forward(p).p

RECURSIVE expression(_)
RECURSIVE assignment(_)
RECURSIVE unary(_)
RECURSIVE factor_loop(_, _)
RECURSIVE term_loop(_, _)
RECURSIVE comparison_loop(_, _)
RECURSIVE equality_loop(_, _)
RECURSIVE logic_and_loop(_, _)
RECURSIVE logic_or_loop(_, _)

\* the match on the token under the cursor
primary_match(token, p) ==
    CASE token[1] = "Number" -> Ok(AstNumber(token[2]), p)
      [] token[1] = "String" -> Ok(AstString(token[2]), p)
      [] token[1] = "KeyWord" ->
            CASE token[2] = "True" -> Ok(AstBoolean(TRUE), p)
              [] token[2] = "False" -> Ok(AstBoolean(FALSE), p)
              [] token[2] = "Nil" -> Ok(AstNil, p)
              [] OTHER -> Err("Unexpected keyword", p)
      [] token = LeftParen ->
            TryForward(p, LAMBDA p1 :
            Try(expression(p1), LAMBDA expr, p2 :
                IF peek(p2) # RightParen THEN Err("Expected ')' after expression", p2)
                ELSE Ok(Group(expr), p2)))
      [] token = RightParen -> Err("Unexpected ')' in parsing primary", p)
      [] token[1] = "Identifier" ->
            IF get_var(p, token[2]) # <<>> THEN Ok(get_var(p, token[2])[1], p)
            ELSE Err("Variable not declared", p)
      [] OTHER -> Err("Expected expression in parsing primary", p)

primary(p) ==
    Try(primary_match(peek(p), p), LAMBDA node, p1 :
        IF forward(p1).ok THEN Ok(node, forward(p1).p)
        ELSE Ok(node, println(p1, <<"last token">>)))

unary(p) ==
    IF peek(p) = Bang \/ peek(p) = Minus THEN
        TryForward(p, LAMBDA p1 :
        Try(unary(p1), LAMBDA operand, p2 :
            Ok(Unary(to_string(peek(p)), operand), p2)))
    ELSE primary(p)

\* a factor loop that takes + and - as well: one level for the four operators
RECURSIVE factor_loop_flat(_, _)
factor_loop_flat(left, p) ==
    IF peek(p) \in {Slash, Star, Minus, Plus} THEN
        TryForward(p, LAMBDA p1 :
        Try(unary(p1), LAMBDA right, p2 :
            factor_loop_flat(Binary(left, to_string(peek(p)), right), p2)))
    ELSE Ok(left, p)

factor_loop(left, p) ==
    IF peek(p) = Slash \/ peek(p) = Star THEN
        TryForward(p, LAMBDA p1 :
        Try(unary(p1), LAMBDA right, p2 :
            factor_loop(Binary(left, to_string(peek(p)), right), p2)))
    ELSE Ok(left, p)

factor(p) == Try(unary(p), factor_loop)

\* a term loop that builds the tree to the right: a - (b - c)
RECURSIVE term_loop_right(_, _)
term_loop_right(node, p) ==
    IF peek(p) = Minus \/ peek(p) = Plus THEN
        TryForward(p, LAMBDA p1 :
        Try(factor(p1), LAMBDA right, p2 :
        Try(term_loop_right(right, p2), LAMBDA rest, p3 :
            Ok(Binary(node, to_string(peek(p)), rest), p3))))
    ELSE Ok(node, p)

term_loop(node, p) ==
    IF peek(p) = Minus \/ peek(p) = Plus THEN
        TryForward(p, LAMBDA p1 :
        Try(factor(p1), LAMBDA right, p2 :
            term_loop(Binary(node, to_string(peek(p)), right), p2)))
    ELSE Ok(node, p)

term(p) == Try(factor(p), term_loop)

comparison_loop(node, p) ==
    IF \/ peek(p) = Greater
       \/ peek(p) = GreaterEqual
       \/ peek(p) = Less
       \/ peek(p) = LessEqual
       \/ peek(p) = BangEqual
       \/ peek(p) = EqualEqual
    THEN
        TryForward(p, LAMBDA p1 :
        Try(term(p1), LAMBDA right, p2 :
            comparison_loop(Binary(node, to_string(peek(p)), right), p2)))
    ELSE Ok(node, p)

comparison(p) == Try(term(p), comparison_loop)

equality_loop(node, p) ==
    IF peek(p) = BangEqual \/ peek(p) = EqualEqual THEN
        TryForward(p, LAMBDA p1 :
        Try(comparison(p1), LAMBDA right, p2 :
            equality_loop(Binary(node, to_string(peek(p)), right), p2)))
    ELSE Ok(node, p)

equality(p) == Try(comparison(p), equality_loop)

logic_and_loop(left, p) ==
    IF peek(p) = KeyWord("And") THEN
        TryForward(p, LAMBDA p1 :
        Try(equality(p1), LAMBDA right, p2 :
            logic_and_loop(And(left, right), p2)))
    ELSE Ok(left, p)

logic_and(p) == Try(equality(p), logic_and_loop)

\* a loop of logic_or that takes `and` as well, and equality operands
RECURSIVE logic_or_loop_flat(_, _)
logic_or_loop_flat(left, p) ==
    IF peek(p) \in {KeyWord("Or"), KeyWord("And")} THEN
        TryForward(p, LAMBDA p1 :
        Try(equality(p1), LAMBDA right, p2 :
            logic_or_loop_flat(IF peek(p) = KeyWord("Or") THEN Or(left, right)
                               ELSE And(left, right), p2)))
    ELSE Ok(left, p)

logic_or_loop(left, p) ==
    IF peek(p) = KeyWord("Or") THEN
        TryForward(p, LAMBDA p1 :
        Try(logic_and(p1), LAMBDA right, p2 :
            logic_or_loop(Or(left, right), p2)))
    ELSE Ok(left, p)

logic_or(p) == Try(logic_and(p), logic_or_loop)

\* the end of the assignment arm, once the value is parsed
assignment_bind(var, p) ==
    LET added == add_var(p, var)
    IN  IF ~added.ok THEN Err("var is not a Variable", added.p)
        ELSE IF peek(added.p) # Semicolon
        THEN Err("Expected ';' after assignment", added.p)
        ELSE IF next(added.p) # <<>> THEN Ok(var, forward(added.p).p)
        ELSE Ok(var, added.p)

\* the arm of a declared identifier that `=` does not follow is logic_or,
\* as is the arm of any other token
assignment(p) ==
    IF peek(p)[1] = "Identifier" /\ get_var(p, peek(p)[2]) = <<>>
    THEN Err("Variable not declared", p)
    ELSE IF peek(p)[1] = "Identifier" /\ next(p) = <<>>
    THEN Panic("unwrap on None", p)
    ELSE IF peek(p)[1] = "Identifier" /\ next(p)[1] = Equal THEN
        TryForward(p, LAMBDA p1 :
        TryForward(p1, LAMBDA p2 :
        Try(assignment(p2), LAMBDA value, p3 :
            assignment_bind(Variable(peek(p)[2], <<value>>), p3))))
    ELSE logic_or(p)

expression(p) == assignment(p)

RECURSIVE declaration(_)
RECURSIVE statement(_)
RECURSIVE block_loop(_, _)
RECURSIVE skip_to_right_brace(_)

print_statement(p) ==
    TryForward(p, LAMBDA p1 :
    Try(expression(p1), LAMBDA expr, p2 :
        IF peek(p2) # Semicolon
        THEN Err("Expected ';' after expression in print statement", p2)
        ELSE Ok(PrintStmt(expr), forward_ignored(p2))))

\* after the loop: expire_scope, the check of the brace, the forward
\* the end of block without expire_scope
block_end_unexpired(nodes, p) ==
    IF peek(p) # RightBrace THEN Err("Expected '}' after block", p)
    ELSE Ok(Block(nodes), forward_ignored(p))

block_end(nodes, p) ==
    IF peek(expire_scope(p)) # RightBrace
    THEN Err("Expected '}' after block", expire_scope(p))
    ELSE Ok(Block(nodes), forward_ignored(expire_scope(p)))

\* while self.peek() != &TokenType::RightBrace { self.declaration()? ... }:
\* an iteration that returns Ok and leaves current and scope as it found
\* them is followed by the same iteration, for ever
block_loop(nodes, p) ==
    IF peek(p) # RightBrace THEN
        Try(declaration(p), LAMBDA node, p1 :
            IF p1.current = p.current /\ p1.scope = p.scope THEN Diverge(p1)
            ELSE block_loop(Append(nodes, node), p1))
    ELSE block_end(nodes, p)

block(p) == TryForward(p, LAMBDA p1 : block_loop(<<>>, forward_scope(p1)))

\* while self.peek() != &TokenType::RightBrace { self.forward()?; }
\* the result is not Ok when forward fails, and its node is of no use
skip_to_right_brace(p) ==
    IF peek(p) # RightBrace THEN TryForward(p, skip_to_right_brace)
    ELSE Ok(AstNil, p)

\* the branch of a true condition
if_then(condition, p) ==
    Try(statement(p), LAMBDA branch, p1 :
        IF peek(p1) = KeyWord("Else") THEN
            Try(skip_to_right_brace(println(p1, <<"exec_branch", branch>>)),
                LAMBDA skipped, p2 :
                    Ok(If(condition, <<branch>>), forward_ignored(p2)))
        ELSE Ok(If(condition, <<branch>>), println(p1, <<"exec_branch", branch>>)))

\* the branch of any other condition
if_else(condition, p) ==
    Try(skip_to_right_brace(p), LAMBDA skipped, p1 :
    TryForward(p1, LAMBDA p2 :
        IF peek(p2) = KeyWord("Else") THEN
            TryForward(p2, LAMBDA p3 :
            Try(statement(p3), LAMBDA branch, p4 :
                Ok(If(condition, <<branch>>), p4)))
        ELSE Ok(If(condition, <<>>), p2)))

\* condition.evaluate() is called for the println! and again for the test
if_branch(condition, value, p) ==
    IF value.st # "ok" THEN Panic(value.msg, p)
    ELSE IF value.v = BooleanVal(TRUE)
    THEN if_then(condition, println(p, <<"condition", condition, value.v>>))
    ELSE if_else(condition, println(p, <<"condition", condition, value.v>>))

if_statement(p) ==
    TryForward(p, LAMBDA p1 :
    Try(expression(p1), LAMBDA condition, p2 :
        if_branch(condition, evaluate(condition), p2)))

statement(p) ==
    CASE peek(p) = KeyWord("Print") -> print_statement(p)
      [] peek(p) = LeftBrace -> block(p)
      [] peek(p) = KeyWord("If") -> if_statement(p)
      [] OTHER -> expression(p)

\* "var" IDENTIFIER "=" expression ";" once the expression is parsed
var_declaration_value(var, p) ==
    IF peek(p) # Semicolon
    THEN Err("Expected ';' after expression in var declaration", p)
    ELSE IF ~add_var(forward_ignored(p), var).ok
    THEN Err("var is not a Variable", forward_ignored(p))
    ELSE Ok(var, add_var(forward_ignored(p), var).p)

\* "var" IDENTIFIER ";"
var_declaration_none(var, p) ==
    IF ~add_var(p, var).ok THEN Err("var is not a Variable", p)
    ELSE IF peek(p) # Semicolon THEN Err("Expected ';' after var declaration", add_var(p, var).p)
    ELSE Ok(var, forward_ignored(add_var(p, var).p))

var_declaration(p) ==
    TryForward(p, LAMBDA p1 :
        IF peek(p1)[1] # "Identifier" THEN Err("Expected identifier after var", p1)
        ELSE TryForward(p1, LAMBDA p2 :
            IF peek(p2) = Equal THEN
                TryForward(p2, LAMBDA p3 :
                Try(expression(p3), LAMBDA value, p4 :
                    var_declaration_value(Variable(peek(p1)[2], <<value>>), p4)))
            ELSE var_declaration_none(Variable(peek(p1)[2], <<>>), p2)))

declaration(p) ==
    IF peek(p) = KeyWord("Var") THEN var_declaration(p) ELSE statement(p)

(***************************************************************************)
(* The driver (tests::statement of src/src/parsing.rs): Parser::new,       *)
(* parse, then evaluate of each returned node in order.  program's loop is *)
(* taken one iteration at a time.                                          *)
(***************************************************************************)
Parser == [current |-> current, scope |-> scope, stdout |-> stdout]

\* Parser::new on a token sequence that was built directly: no file is read
New(input) ==
    /\ content = <<>>
    /\ lexed = <<>>
    /\ tokens = input
    /\ current = 0
    /\ scope = RootScope
    /\ vec = <<>>
    /\ stdout = <<>>
    /\ pc = "program"
    /\ results = <<>>

\* one iteration of `while self.current < self.tokens.len() - 1`; on the
\* empty sequence len() - 1 underflows: a panic there in a debug build, and
\* in a release build at the first peek, which indexes tokens[0]
program_push(node) ==
    /\ current' = node.p.current
    /\ scope' = node.p.scope
    /\ stdout' = node.p.stdout
    /\ vec' = IF node.st = "ok" THEN Append(vec, node.node) ELSE vec
    /\ pc' = CASE node.st = "ok" -> "program"
               [] node.st = "err" -> "parse_err"
               [] node.st = "panic" -> "parse_panic"
               [] node.st = "diverge" -> "parse_diverge"

Declaration ==
    /\ pc = "program"
    /\ Len(tokens) = 0 \/ current < Len(tokens) - 1
    /\ program_push(IF Len(tokens) = 0 THEN Panic("index out of bounds", Parser)
                    ELSE declaration(Parser))
    /\ UNCHANGED <<content, lexed, tokens, results>>

\* the loop's exit: Ok(vec)
ProgramReturn ==
    /\ pc = "program"
    /\ Len(tokens) > 0
    /\ ~(current < Len(tokens) - 1)
    /\ pc' = "parsed"
    /\ UNCHANGED <<content, lexed, tokens, current, scope, vec, stdout, results>>

\* the driver's loop: n.evaluate() on the next node
results_push(res) ==
    /\ results' = IF res.st = "ok" THEN Append(results, res.v) ELSE results
    /\ pc' = IF res.st = "ok" THEN "parsed" ELSE "eval_panic"

Evaluate ==
    /\ pc = "parsed"
    /\ Len(results) < Len(vec)
    /\ results_push(evaluate(vec[Len(results) + 1]))
    /\ UNCHANGED <<content, lexed, tokens, current, scope, vec, stdout>>

\* the driver's loop is over
Finish ==
    /\ pc = "parsed"
    /\ Len(results) = Len(vec)
    /\ pc' = "done"
    /\ UNCHANGED <<content, lexed, tokens, current, scope, vec, stdout, results>>

Next == Declaration \/ ProgramReturn \/ Evaluate \/ Finish

\* the call of lexing on the file: Ok(vec), or an error and no vector
Lexing ==
    /\ pc = "lexing"
    /\ lexed' = lexing(content).vec
    /\ pc' = IF lexing(content).st = "ok" THEN "lexed" ELSE "lex_err"
    /\ UNCHANGED <<content, tokens, current, scope, vec, stdout, results>>

\* the callers of lexing: the filter on is_skippable, then Parser::new
Filter ==
    /\ pc = "lexed"
    /\ tokens' = SelectSeq(lexed, LAMBDA token : ~is_skippable(token))
    /\ current' = 0
    /\ scope' = RootScope
    /\ pc' = "program"
    /\ UNCHANGED <<content, lexed, vec, stdout, results>>

NextLex == Lexing \/ Filter \/ Next

(***************************************************************************)
(* Inputs.  A program is a token sequence put together from statement      *)
(* fragments; every specification below starts the driver on each program  *)
(* of one bounded family.                                                  *)
(***************************************************************************)
MaxStmts == 3    \* fragments of a program of Programs
MaxDepth == 2    \* nested blocks of a program of ScopePrograms
MaxBody == 2     \* fragments inside the blocks of a program of ScopePrograms
MaxOps == 2      \* binary operators of a program of ExprPrograms
MaxInt == 2      \* the integer literals of a program of BinPrograms are 0..MaxInt
MaxLogicOps == 3 \* operators of a program of LogicPrograms
MaxSource == 4   \* characters of a source text of Sources
MaxDigits == 20  \* digits of the longest run of digits of Sources

RECURSIVE Flatten(_)
Flatten(seqs) == IF seqs = <<>> THEN <<>> ELSE Head(seqs) \o Flatten(Tail(seqs))

SeqsUpTo(S, n) == UNION {[1..k -> S] : k \in 0..n}

Repeat(token, n) == [i \in 1..n |-> token]

IntTok(i) == NumberTok(Integer(i))
Var == KeyWord("Var")
PrintKw == KeyWord("Print")
IfKw == KeyWord("If")
Else == KeyWord("Else")
x == Identifier("x")
y == Identifier("y")

\* statements that are well formed and refer to no variable
ClosedStmts ==
    { <<Var, x, Equal, IntTok(1), Semicolon>>,
      <<PrintKw, IntTok(1), Semicolon>>,
      <<LeftBrace, PrintKw, IntTok(2), Semicolon, RightBrace>>,
      <<IfKw, KeyWord("True"), LeftBrace, PrintKw, IntTok(3), Semicolon, RightBrace>>,
      <<IntTok(4), Semicolon>>,
      <<PrintKw, StringTok("a"), Plus, IntTok(1), Semicolon>>,
      <<PrintKw, IntTok(1), Slash, IntTok(0), Semicolon>> }

\* statements that refer to x; the third declares y and assigns it and x
OpenStmts ==
    { <<PrintKw, x, Semicolon>>,
      <<x, Equal, IntTok(5), Semicolon>>,
      <<Var, y, Equal, IntTok(2), Semicolon, x, Equal, y, Equal, IntTok(6), Semicolon>>,
      <<PrintKw, x>>,
      <<IfKw, IntTok(1), Plus, StringTok("a"), LeftBrace, RightBrace>> }

Programs == {Flatten(s) : s \in SeqsUpTo(ClosedStmts \cup OpenStmts, MaxStmts)}

\* nested blocks around a body, between a declaration of x and a print of x
ScopeBody ==
    { <<Var, x, Equal, IntTok(2), Semicolon>>,
      <<x, Equal, IntTok(3), Semicolon>>,
      <<PrintKw, x, Semicolon>>,
      <<Var, y, Equal, IntTok(4), Semicolon>>,
      <<PrintKw, IntTok(1), Plus, y, Semicolon>> }

DeclareX == <<Var, x, Equal, IntTok(1), Semicolon>>
PrintX == <<PrintKw, x, Semicolon>>
PrintY == <<PrintKw, y, Semicolon>>
VarX2 == <<Var, x, Equal, IntTok(2), Semicolon>>
AssignX3 == <<x, Equal, IntTok(3), Semicolon>>

\* what follows the blocks: nothing, a statement, an identifier or a literal
ScopeSuffixes == {<<>>, PrintX, PrintY, <<y>>, <<IntTok(5)>>}

ScopeProgram(pre, opened, body, closed, suf) ==
    pre \o Repeat(LeftBrace, opened) \o Flatten(body)
        \o Repeat(RightBrace, closed) \o suf

ScopePrograms ==
    { ScopeProgram(pre, opened, body, closed, suf) :
        pre \in {<<>>, DeclareX}, opened \in 0..MaxDepth,
        body \in SeqsUpTo(ScopeBody, MaxBody), closed \in 0..MaxDepth,
        suf \in ScopeSuffixes }

\* if c S1, if c S1 else S2, each with or without a statement after it;
\* a branch is a record of its tokens and of the value it evaluates to
Conditions ==
    { <<KeyWord("True")>>, <<KeyWord("False")>>, <<IntTok(1), Less, IntTok(2)>>,
      <<KeyWord("Nil")>>, <<IntTok(1), Plus, StringTok("a")>>,
      <<IntTok(0)>>, <<StringTok("a")>> }

Branch(toks, v) == [toks |-> toks, v |-> v]

Branches ==
    { Branch(<<PrintKw, IntTok(1), Semicolon>>, NumberVal(Integer(1))),
      Branch(<<IntTok(2), Semicolon>>, NumberVal(Integer(2))),
      Branch(<<LeftBrace, PrintKw, IntTok(3), Semicolon, RightBrace>>,
             NumberVal(Integer(3))),
      Branch(<<LeftBrace, RightBrace>>, NilVal),
      Branch(<<IfKw, KeyWord("True"), PrintKw, IntTok(4), Semicolon>>,
             NumberVal(Integer(4))),
      Branch(<<LeftBrace, LeftBrace, PrintKw, IntTok(5), Semicolon, RightBrace,
               PrintKw, IntTok(6), Semicolon, RightBrace>>, NumberVal(Integer(6))),
      Branch(<<LeftBrace, PrintKw, IntTok(8), Semicolon, RightBrace>>,
             NumberVal(Integer(8))) }

IfElse(c, s1, s2) == <<IfKw>> \o c \o s1.toks \o <<Else>> \o s2.toks

IfPrograms ==
    { <<IfKw>> \o c \o s1.toks \o suf :
        c \in Conditions, s1 \in Branches,
        suf \in {<<>>, <<PrintKw, IntTok(7), Semicolon>>} }
    \cup
    { IfElse(c, s1, s2) \o suf :
        c \in Conditions, s1 \in Branches, s2 \in Branches,
        suf \in {<<>>, <<PrintKw, IntTok(7), Semicolon>>} }

\* expression statements: operand (operator operand)* ;
Operands == {IntTok(2), IntTok(4), IntTok(8)}
Operators == {EqualEqual, BangEqual, Less, GreaterEqual, Plus, Minus, Star, Slash}

RECURSIVE Chains(_)
Chains(n) ==
    IF n = 0 THEN {<<o>> : o \in Operands}
    ELSE {c \o <<op, o>> : c \in Chains(n - 1), op \in Operators, o \in Operands}

ExprPrograms == {c \o <<Semicolon>> : c \in UNION {Chains(n) : n \in 0..MaxOps}}

\* logic statements: operand ((or | and | ==) operand)* ;
LogicOperands == {KeyWord("True"), KeyWord("False"), IntTok(1)}

LogicPrograms ==
    LET RECURSIVE chains(_)
        chains(n) ==
            IF n = 0 THEN {<<o>> : o \in LogicOperands}
            ELSE {c \o <<op, o>> :
                    c \in chains(n - 1),
                    op \in {KeyWord("Or"), KeyWord("And"), EqualEqual},
                    o \in LogicOperands}
    IN  {c \o <<Semicolon>> : c \in UNION {chains(n) : n \in 0..MaxLogicOps}}

\* one binary or logical operator between two literals: a op b ;
\* and a op "a" + 1 ; whose right operand fails when it is evaluated
IntLits == {IntTok(i) : i \in 0..MaxInt}
FloatLits == {NumberTok(Float(f)) : f \in {<<0, 1>>, <<3, 2>>, <<2, 1>>}}
StringLits == {StringTok("a"), StringTok("b")}
Literals ==
    IntLits \cup FloatLits \cup StringLits
        \cup {KeyWord("True"), KeyWord("False"), KeyWord("Nil")}
ArithmeticOps == {Plus, Minus, Star, Slash}
ComparisonOps == {Greater, Less, GreaterEqual, LessEqual, EqualEqual, BangEqual}
LogicOps == {KeyWord("Or"), KeyWord("And")}
FailingRight == <<StringTok("a"), Plus, IntTok(1)>>
Rights == {<<b>> : b \in Literals} \cup {FailingRight}

BinPrograms ==
    { <<a, op>> \o r \o <<Semicolon>> :
        a \in Literals, op \in ArithmeticOps \cup ComparisonOps \cup LogicOps,
        r \in Rights }

\* source texts: numbers and dots; string literals and comments; operators;
\* words; a run of digits above i64::MAX; and != //= newline ===
Sources ==
    SeqsUpTo({"0", "1", ".", ";", " "}, MaxSource)
        \cup SeqsUpTo({"\"", "a", "/", "\n", ";"}, MaxSource)
        \cup SeqsUpTo({"=", "!", "<", ">", "/", "\n"}, MaxSource)
        \cup SeqsUpTo({"o", "r", "_", "1", "\t"}, MaxSource)
        \cup {Repeat("9", MaxDigits)}
        \cup {<<"!", "=", "/", "/", "=", "\n", "=", "=", "=">>}

Init == \E input \in Programs : New(input)
InitBin == \E input \in BinPrograms : New(input)
InitScope == \E input \in ScopePrograms : New(input)
InitIf == \E input \in IfPrograms : New(input)
InitExpr == \E input \in ExprPrograms : New(input)
InitNested == InitScope \/ InitIf
InitLogic == \E input \in LogicPrograms : New(input)
InitLex ==
    /\ content \in Sources
    /\ lexed = <<>>
    /\ tokens = <<>>
    /\ current = 0
    /\ scope = RootScope
    /\ vec = <<>>
    /\ stdout = <<>>
    /\ pc = "lexing"
    /\ results = <<>>

Spec == Init /\ [][Next]_vars
SpecScope == InitScope /\ [][Next]_vars
SpecIf == InitIf /\ [][Next]_vars
SpecExpr == InitExpr /\ [][Next]_vars
SpecBin == InitBin /\ [][Next]_vars
SpecNested == InitNested /\ [][Next]_vars
SpecLogic == InitLogic /\ [][Next]_vars
SpecLex == InitLex /\ [][NextLex]_vars

(***************************************************************************)
(* Properties.                                                             *)
(***************************************************************************)
Last(seq) == seq[Len(seq)]

ParseFailed == pc \in {"parse_err", "parse_panic", "parse_diverge"}

\* a frame of the chain other than the root binds name
RECURSIVE InnerBinds(_, _)
InnerBinds(s, name) ==
    /\ s.parent # <<>>
    /\ name \in DOMAIN s.vars \/ InnerBinds(s.parent[1], name)

\* C1: a `var x` inside a block leaves the binding of x in the enclosing
\* scope as it was: in var x = 1; { var x = 2; ... } print x; the print
\* after the block yields 1.
C1_ShadowingConfined ==
    \A k \in 1..MaxDepth, body \in SeqsUpTo(ScopeBody \ {AssignX3}, MaxBody - 1) :
        (/\ pc = "done"
         /\ tokens = ScopeProgram(DeclareX, k, <<VarX2>> \o body, k, PrintX))
        => Last(results) = NumberVal(Integer(1))

\* C2: an assignment x = e; inside nested blocks, x being declared in the
\* enclosing scope only, updates the enclosing binding and makes no local
\* one: no frame but the root ever binds x, and in
\* var x = 1; {..{ ... x = 3; ... }..} print x; the print yields 3, at any
\* depth of the blocks.
C2_AssignmentUpdatesEnclosing ==
    (/\ Len(tokens) >= 5
     /\ SubSeq(tokens, 1, 5) = DeclareX
     /\ \A j \in 6..(Len(tokens) - 1) : ~(tokens[j] = Var /\ tokens[j + 1] = x))
    => /\ ~InnerBinds(scope, "x")
       /\ \A k \in 1..MaxDepth, body \in SeqsUpTo(ScopeBody \ {VarX2}, MaxBody) :
            (/\ pc = "done"
             /\ \E i \in 1..Len(body) : body[i] = AssignX3
             /\ tokens = ScopeProgram(DeclareX, k, body, k, PrintX))
            => Last(results) = NumberVal(Integer(3))

\* the assignment was parsed at depth MaxDepth and the print after the
\* blocks was evaluated
C2_Witness ==
    /\ pc = "done"
    /\ tokens = ScopeProgram(DeclareX, MaxDepth, <<AssignX3>>, MaxDepth, PrintX)
    /\ Last(results) = NumberVal(Integer(3))
    /\ ~InnerBinds(scope, "x")

\* the value of a condition of Conditions that is a boolean
ConditionValue(c) ==
    CASE c = <<KeyWord("True")>> -> <<TRUE>>
      [] c = <<KeyWord("False")>> -> <<FALSE>>
      [] c = <<IntTok(1), Less, IntTok(2)>> -> <<TRUE>>
      [] OTHER -> <<>>

\* C3: for every statement if c S1 else S2, S1 and S2 being any statements,
\* parsing succeeds and the execution executes S1 when c is true and S2
\* when c is false.
C3_IfElseAnyStatement ==
    \A c \in Conditions, s1 \in Branches, s2 \in Branches :
        (ConditionValue(c) # <<>> /\ tokens = IfElse(c, s1, s2))
        => /\ ~ParseFailed
           /\ pc = "done" =>
                results = <<IF ConditionValue(c)[1] THEN s1.v ELSE s2.v>>

\* C4: parsing an if statement evaluates no expression, so the parser has
\* no value of the condition to write, and the If node it returns retains
\* the then-branch and the else-branch.
C4_ParseEvaluatesNothing ==
    \A c \in Conditions, s1 \in Branches, s2 \in Branches :
        (tokens = IfElse(c, s1, s2) /\ pc = "parsed")
        => /\ \A i \in 1..Len(stdout) : stdout[i][1] # "condition"
           /\ {"then_branch", "else_branch"} \subseteq DOMAIN vec[1]

\* C5: every evaluation of a Print node writes one line: once the driver is
\* done, standard output holds a "print" line for each print statement at
\* the top level of the program.
C5_PrintEmitsLine ==
    pc = "done" =>
        Cardinality({i \in 1..Len(vec) : vec[i].type = "Print"})
            <= Cardinality({j \in 1..Len(stdout) : stdout[j][1] = "print"})

\* C6: evaluate returns every failure as a value: for no node does it panic.
C6_EvaluateNeverPanics == pc # "eval_panic"

\* C7: for every token sequence that is not empty, parse returns Ok or a
\* ParseError and never panics.
C7_ParseNeverPanics == Len(tokens) > 0 => pc # "parse_panic"

\* C8: for every sequence of n >= 1 well formed statements, parse succeeds
\* and returns n nodes.
C8_OneNodePerStatement ==
    \A stmts \in SeqsUpTo(ClosedStmts, MaxStmts) :
        (Len(stmts) >= 1 /\ tokens = Flatten(stmts))
        => /\ ~ParseFailed
           /\ pc = "parsed" => Len(vec) = Len(stmts)

\* braces open after token k
Depth(k) ==
    Cardinality({j \in 1..k : tokens[j] = LeftBrace})
        - Cardinality({j \in 1..k : tokens[j] = RightBrace})

\* `var` at j declares the identifier at i, in a block that is open at i
DeclaredAt(j, i) ==
    /\ tokens[j] = Var
    /\ tokens[j + 1] = tokens[i]
    /\ \A m \in j..i : Depth(m) >= Depth(j)

\* the token at i is an identifier that is referred to or assigned to, and
\* no scope of the chain at i binds it
UnboundReference(i) ==
    /\ tokens[i][1] = "Identifier"
    /\ i = 1 \/ tokens[i - 1] # Var
    /\ \A j \in 1..(i - 2) : ~DeclaredAt(j, i)

C10_EqualityLooser ==
    \A a \in Operands, b \in Operands, c \in Operands,
       eq \in {EqualEqual, BangEqual}, rel \in {Less, GreaterEqual} :
        (tokens = <<a, eq, b, rel, c, Semicolon>> /\ pc = "parsed")
        => vec = <<Binary(AstNumber(a[2]), to_string(eq),
                          Binary(AstNumber(b[2]), to_string(rel), AstNumber(c[2])))>>

\* the node of an operand of Operands
Operand(token) == AstNumber(token[2])

\* C11: * and / bind tighter than + and -: a + b * c; parses, and parses as
\* Binary(+, a, Binary(*, b, c)).
C11_FactorTighter ==
    \A a \in Operands, b \in Operands, c \in Operands,
       add \in {Plus, Minus}, mul \in {Star, Slash} :
        tokens = <<a, add, b, mul, c, Semicolon>>
        => /\ ~ParseFailed
           /\ pc # "program" =>
                vec = <<Binary(Operand(a), to_string(add),
                               Binary(Operand(b), to_string(mul), Operand(c)))>>

\* 2 + 4 * 8; was parsed and evaluated to 34
C11_Witness ==
    /\ pc = "done"
    /\ tokens = <<IntTok(2), Plus, IntTok(4), Star, IntTok(8), Semicolon>>
    /\ vec[1].operator = "+"
    /\ vec[1].right.operator = "*"
    /\ results = <<NumberVal(Integer(34))>>

\* C12: the binary operators of one level associate to the left: a - b - c;
\* parses as Binary(-, Binary(-, a, b), c), and 8 - 4 - 2; evaluates to 2.
C12_LeftAssociative ==
    /\ \A a \in Operands, b \in Operands, c \in Operands :
        \A level \in {{Plus, Minus}, {Star, Slash}} :
            \A op1 \in level, op2 \in level :
                tokens = <<a, op1, b, op2, c, Semicolon>>
                => /\ ~ParseFailed
                   /\ pc # "program" =>
                        vec = <<Binary(Binary(Operand(a), to_string(op1), Operand(b)),
                                       to_string(op2), Operand(c))>>
    /\ (/\ tokens = <<IntTok(8), Minus, IntTok(4), Minus, IntTok(2), Semicolon>>
        /\ pc = "done")
       => results = <<NumberVal(Integer(2))>>

\* 8 - 4 - 2; was parsed to the left and evaluated to 2
C12_Witness ==
    /\ pc = "done"
    /\ tokens = <<IntTok(8), Minus, IntTok(4), Minus, IntTok(2), Semicolon>>
    /\ vec[1].left.type = "Binary"
    /\ vec[1].right = AstNumber(Integer(2))
    /\ results = <<NumberVal(Integer(2))>>

IsInteger(token) == token[1] = "Number" /\ token[2][1] = "Integer"
IsFloat(token) == token[1] = "Number" /\ token[2][1] = "Float"
Mixed(a, b) == (IsInteger(a) /\ IsFloat(b)) \/ (IsFloat(a) /\ IsInteger(b))

\* the evaluation of the one statement of the program fails
NeverEvaluates == ~ParseFailed /\ pc # "done" /\ results = <<>>

\* the evaluation of the one statement yields a Number of the kind of a
YieldsKindOf(a) ==
    /\ ~ParseFailed
    /\ pc # "eval_panic"
    /\ pc = "done" =>
        Len(results) = 1 /\ results[1][1] = "Number" /\ results[1][2][1] = a[2][1]

\* C13 as stated: + - * / on an Integer and a Float fails; on two Integers
\* it yields an Integer, on two Floats a Float.
C13_AsStated ==
    \A a \in IntLits \cup FloatLits, b \in IntLits \cup FloatLits,
       op \in ArithmeticOps :
        tokens = <<a, op, b, Semicolon>>
        => IF Mixed(a, b) THEN NeverEvaluates ELSE YieldsKindOf(a)

\* C13, amended: + - * / on an Integer and a Float fails; on two Integers
\* it yields an Integer, but for the division by Integer zero, which fails;
\* on two Floats it yields a Float.
C13_SameKindArithmetic ==
    \A a \in IntLits \cup FloatLits, b \in IntLits \cup FloatLits,
       op \in ArithmeticOps :
        tokens = <<a, op, b, Semicolon>>
        => IF Mixed(a, b) \/ (IsInteger(a) /\ op = Slash /\ b = IntTok(0))
           THEN NeverEvaluates
           ELSE YieldsKindOf(a)

\* the evaluation of 1 + 1.5 failed
C13_Witness ==
    /\ pc = "eval_panic"
    /\ tokens = <<IntTok(1), Plus, NumberTok(Float(<<3, 2>>)), Semicolon>>
    /\ vec = <<Binary(AstNumber(Integer(1)), "+", AstNumber(Float(<<3, 2>>)))>>

\* C14: each of > < >= <= == != on an Integer and a Float fails: none
\* yields a boolean.
C14_MixedComparisonFails ==
    \A a \in IntLits \cup FloatLits, b \in IntLits \cup FloatLits,
       op \in ComparisonOps :
        (Mixed(a, b) /\ tokens = <<a, op, b, Semicolon>>) => NeverEvaluates

\* C15: an Or whose left is true yields true, and an And whose left is
\* false yields false, whatever the right operand is, also one whose
\* evaluation fails: the right operand is not evaluated.
C15_ShortCircuit ==
    \A r \in Rights :
        /\ tokens = <<KeyWord("True"), KeyWord("Or")>> \o r \o <<Semicolon>>
           => /\ ~ParseFailed
              /\ pc # "eval_panic"
              /\ pc = "done" => results = <<BooleanVal(TRUE)>>
        /\ tokens = <<KeyWord("False"), KeyWord("And")>> \o r \o <<Semicolon>>
           => /\ ~ParseFailed
              /\ pc # "eval_panic"
              /\ pc = "done" => results = <<BooleanVal(FALSE)>>

\* true or "a" + 1; was evaluated to true, and its right operand is one
\* whose evaluation fails
C15_Witness ==
    /\ pc = "done"
    /\ tokens = <<KeyWord("True"), KeyWord("Or")>> \o FailingRight \o <<Semicolon>>
    /\ results = <<BooleanVal(TRUE)>>
    /\ vec[1].type = "Or"
    /\ evaluate(vec[1].right).st = "panic"

\* C16: an Or or And whose left operand is not a boolean fails.
C16_NonBooleanLeftFails ==
    \A a \in Literals \ {KeyWord("True"), KeyWord("False")},
       op \in LogicOps, r \in Rights :
        tokens = <<a, op>> \o r \o <<Semicolon>> => NeverEvaluates

\* C17: on two strings + yields the concatenation and == the equality,
\* and every other operator fails; a Binary whose operands are not both
\* numbers or both strings fails.
C17_StringBinary ==
    \A a \in Literals, b \in Literals, op \in ArithmeticOps \cup ComparisonOps :
        tokens = <<a, op, b, Semicolon>>
        => /\ ~ParseFailed
           /\ CASE a[1] = "String" /\ b[1] = "String" /\ op = Plus ->
                    /\ pc # "eval_panic"
                    /\ pc = "done" => results = <<StringVal(a[2] \o b[2])>>
                [] a[1] = "String" /\ b[1] = "String" /\ op = EqualEqual ->
                    /\ pc # "eval_panic"
                    /\ pc = "done" => results = <<BooleanVal(a[2] = b[2])>>
                [] a[1] = "Number" /\ b[1] = "Number" -> TRUE
                [] OTHER -> NeverEvaluates

\* "a" + "b"; was evaluated to "ab"
C17_Witness ==
    /\ pc = "done"
    /\ tokens = <<StringTok("a"), Plus, StringTok("b"), Semicolon>>
    /\ results = <<StringVal("ab")>>

\* C18: a token sequence with a { that no } closes before the end of the
\* stream is rejected with a ParseError, whatever the unterminated block
\* holds: the parse neither succeeds, nor panics, nor hangs.
C18_UnterminatedBlockRejected ==
    Depth(Len(tokens)) > 0 => pc \in {"program", "parse_err"}

\* the root scope after the declarations of pre
ScopeAfter(pre) ==
    [parent |-> <<>>,
     vars |-> IF pre = DeclareX
              THEN "x" :> Variable("x", <<AstNumber(Integer(1))>>)
              ELSE EmptyVars]

\* C19: a binding that a `var` inside a block makes does not outlive the
\* block: once the blocks are closed the scope chain is the one of before
\* the blocks (the body assigning to no variable), and a reference to a
\* name that no enclosing scope declares is a ParseError.
C19_BlockBindingsExpire ==
    \A pre \in {<<>>, DeclareX}, k \in 1..MaxDepth, suf \in ScopeSuffixes,
       body \in SeqsUpTo(ScopeBody \ {AssignX3}, MaxBody) :
        tokens = ScopeProgram(pre, k, body, k, suf)
        => /\ pc \in {"parsed", "done", "eval_panic"} => scope = ScopeAfter(pre)
           /\ (suf = PrintY \/ (suf = PrintX /\ pre = <<>>))
                => pc \in {"program", "parse_err"}

\* the source text with its comments removed: outside a string literal, //
\* and what follows it up to (not including) the next newline
RECURSIVE Uncommented(_, _, _)
Uncommented(source, i, in_string) ==
    IF i > Len(source) THEN <<>>
    ELSE IF in_string
    THEN <<source[i]>> \o Uncommented(source, i + 1, source[i] # "\"")
    ELSE IF source[i] = "/" /\ char_at(source, i + 1) = <<"/">>
    THEN Uncommented(source, comment_end(source, i + 2), FALSE)
    ELSE <<source[i]>> \o Uncommented(source, i + 1, source[i] = "\"")

\* the display forms of a token vector, concatenated
RECURSIVE Joined(_)
Joined(tokenVec) ==
    IF tokenVec = <<>> THEN ""
    ELSE to_string(Head(tokenVec)) \o Joined(Tail(tokenVec))

\* C20: whenever lexing succeeds, the display forms of the tokens it
\* returned (whitespace tokens included), concatenated in order, are the
\* source text with only its comments removed, string literals and float
\* literals included.
C20_LexingLossless ==
    pc = "lexed" => Joined(lexed) = Text(Uncommented(content, 1, FALSE))

\* the indices at which an iteration of the lexer's loop starts
RECURSIVE Boundaries(_, _)

BoundariesAfter(source, one) ==
    IF one.st = "ok" THEN Boundaries(source, one.iter) ELSE {}

Boundaries(source, i) ==
    IF i > Len(source) THEN {}
    ELSE {i} \cup BoundariesAfter(source, lex_one(source, i, source[i]))

\* the end (exclusive) of the maximal run of digits and dots from index i
RECURSIVE RunEnd(_, _)
RunEnd(source, i) ==
    IF i <= Len(source) /\ (is_ascii_digit(source[i]) \/ source[i] = ".")
    THEN RunEnd(source, i + 1)
    ELSE i

Dots(source, i, j) == Cardinality({k \in i..(j - 1) : source[k] = "."})

IsNumberOf(token, kind) == token[1] = "Number" /\ token[2][1] = kind

\* the runs of digits and dots that start a token
DigitStarts(source) ==
    {i \in Boundaries(source, 1) : is_ascii_digit(source[i])}

\* the run from index i lexes to one Number token of the kind of its dots
OneNumber(source, i, one) ==
    /\ one.st = "ok"
    /\ one.iter = RunEnd(source, i)
    /\ Len(one.push) = 1
    /\ IsNumberOf(one.push[1],
            IF Dots(source, i, RunEnd(source, i)) = 0 THEN "Integer" ELSE "Float")

\* C21 as stated: a maximal run of digits and dots that starts a token with
\* a digit lexes to exactly one Number token, which takes the whole run: an
\* Integer when the run has no dot, a Float when it has exactly one; a run
\* with a second dot makes lexing fail, and no token sequence is returned.
C21_AsStated ==
    pc \in {"lexed", "lex_err"} =>
        \A i \in DigitStarts(content) :
            IF Dots(content, i, RunEnd(content, i)) >= 2
            THEN pc = "lex_err" /\ lexed = <<>>
            ELSE OneNumber(content, i, lex_one(content, i, content[i]))

\* C21: the same, except that a run with no dot whose number is above
\* i64::MAX makes lexing fail too; and a source that lexes has as many
\* Number tokens as it has such runs.
C21_DigitRunIsOneNumber ==
    pc \in {"lexed", "lex_err"} =>
        /\ \A i \in DigitStarts(content) :
            IF \/ Dots(content, i, RunEnd(content, i)) >= 2
               \/ /\ Dots(content, i, RunEnd(content, i)) = 0
                  /\ i64_overflows(SubSeq(content, i, RunEnd(content, i) - 1))
            THEN pc = "lex_err" /\ lexed = <<>>
            ELSE OneNumber(content, i, lex_one(content, i, content[i]))
        /\ pc = "lexed" =>
                Cardinality({k \in 1..Len(lexed) : lexed[k][1] = "Number"})
                    = Cardinality(DigitStarts(content))

\* 1 1. was lexed to an Integer, a Space and a Float
C21_Witness ==
    /\ pc = "lexed"
    /\ content = <<"1", " ", "1", ".">>
    /\ lexed = <<IntTok(1), Space, NumberTok(Float(<<1, 1>>))>>

\* the two-character operator that starts with the character c
TwoCharacter(c) ==
    CASE c = "=" -> EqualEqual
      [] c = "!" -> BangEqual
      [] c = ">" -> GreaterEqual
      [] c = "<" -> LessEqual

\* where a comment that starts at index i stops: the next newline, or the end
CommentStop(source, i) ==
    IF \E k \in (i + 2)..Len(source) : source[k] = "\n"
    THEN CHOOSE k \in (i + 2)..Len(source) :
            source[k] = "\n" /\ \A j \in (i + 2)..(k - 1) : source[j] # "\n"
    ELSE Len(source) + 1

CommentStarts(source) ==
    {i \in Boundaries(source, 1) :
        source[i] = "/" /\ char_at(source, i + 1) = <<"/">>}

\* C22: where a token starts with = ! > or < and = follows immediately, the
\* lexer emits the one two-character token and consumes both characters, so
\* the tokens never have a one-character = ! > < directly before a token
\* that starts with =; and // starts a comment that produces no token and
\* stops before the next newline, whose NewLine token is still emitted.
C22_GreedyOperatorsAndComments ==
    pc \in {"lexed", "lex_err"} =>
        /\ \A i \in Boundaries(content, 1) :
            (content[i] \in {"=", "!", ">", "<"} /\ char_at(content, i + 1) = <<"=">>)
            => lex_one(content, i, content[i])
                    = Lexed(<<TwoCharacter(content[i])>>, i + 2)
        /\ \A i \in CommentStarts(content) :
            /\ lex_one(content, i, content[i]) = Lexed(<<>>, CommentStop(content, i))
            /\ CommentStop(content, i) <= Len(content)
                => lex_one(content, CommentStop(content, i), "\n")
                        = Lexed(<<NewLine>>, CommentStop(content, i) + 1)
        /\ pc = "lexed" =>
            /\ \A k \in 1..(Len(lexed) - 1) :
                    ~(/\ lexed[k] \in {Equal, Bang, Greater, Less}
                      /\ lexed[k + 1] \in {Equal, EqualEqual})
            /\ Len(lexed) = Cardinality(Boundaries(content, 1) \ CommentStarts(content))
            /\ Cardinality({k \in 1..Len(lexed) : lexed[k] = NewLine})
                    = Cardinality({i \in Boundaries(content, 1) : content[i] = "\n"})

\* != //= newline === was lexed to !=, the NewLine, == and =
C22_Witness ==
    /\ pc = "lexed"
    /\ content = <<"!", "=", "/", "/", "=", "\n", "=", "=", "=">>
    /\ lexed = <<BangEqual, NewLine, EqualEqual, Equal>>

\* the node of an operand of LogicOperands
LogicOperand(token) ==
    IF token[1] = "Number" THEN AstNumber(token[2])
    ELSE AstBoolean(token[2] = "True")

\* the statement parses, and to the one node
ParsesTo(stmt, node) ==
    tokens = stmt => (~ParseFailed /\ (pc # "program" => vec = <<node>>))

\* C23: or binds looser than and, and both bind looser than ==: a or b and c
\* parses as Or(a, And(b, c)), a and b or c as Or(And(a, b), c), and
\* a == b and c == d as And(Binary(==, a, b), Binary(==, c, d)); a or b or c
\* is Or(Or(a, b), c) and a and b and c is And(And(a, b), c).
C23_LogicPrecedence ==
    \A a \in LogicOperands, b \in LogicOperands, c \in LogicOperands :
        /\ ParsesTo(<<a, KeyWord("Or"), b, KeyWord("And"), c, Semicolon>>,
                    Or(LogicOperand(a), And(LogicOperand(b), LogicOperand(c))))
        /\ ParsesTo(<<a, KeyWord("And"), b, KeyWord("Or"), c, Semicolon>>,
                    Or(And(LogicOperand(a), LogicOperand(b)), LogicOperand(c)))
        /\ ParsesTo(<<a, KeyWord("Or"), b, KeyWord("Or"), c, Semicolon>>,
                    Or(Or(LogicOperand(a), LogicOperand(b)), LogicOperand(c)))
        /\ ParsesTo(<<a, KeyWord("And"), b, KeyWord("And"), c, Semicolon>>,
                    And(And(LogicOperand(a), LogicOperand(b)), LogicOperand(c)))
        /\ \A d \in LogicOperands :
            ParsesTo(<<a, EqualEqual, b, KeyWord("And"), c, EqualEqual, d, Semicolon>>,
                     And(Binary(LogicOperand(a), "==", LogicOperand(b)),
                         Binary(LogicOperand(c), "==", LogicOperand(d))))

\* false or true and false; was parsed as Or(false, And(true, false)) and
\* evaluated to false
C23_Witness ==
    /\ pc = "done"
    /\ tokens = <<KeyWord("False"), KeyWord("Or"), KeyWord("True"), KeyWord("And"),
                  KeyWord("False"), Semicolon>>
    /\ vec = <<Or(AstBoolean(FALSE), And(AstBoolean(TRUE), AstBoolean(FALSE)))>>
    /\ results = <<BooleanVal(FALSE)>>

\* var x = 1; var y = 2; x = y = 6; and what follows it
ChainedAssignment(rest) ==
    <<Var, x, Equal, IntTok(1), Semicolon,
      Var, y, Equal, IntTok(2), Semicolon,
      x, Equal, y, Equal, IntTok(6), Semicolon>> \o rest

\* C24: for declared x and y the statement x = y = 6; parses, also when
\* further statements follow it, and rebinds both x and y to 6: a print of
\* x or of y after it yields 6.
C24_AssignmentRightRecursive ==
    \A rest \in {<<>>, <<PrintKw, x, Semicolon>>, <<PrintKw, y, Semicolon>>,
                  <<IntTok(4), Semicolon>>} :
        tokens = ChainedAssignment(rest)
        => /\ ~ParseFailed
           /\ (pc = "done" /\ Len(rest) = 3)
                => Last(results) = NumberVal(Integer(6))

\* the then-branch { { print 5; } print 6; }
NestedThen ==
    <<LeftBrace, LeftBrace, PrintKw, IntTok(5), Semicolon, RightBrace,
      PrintKw, IntTok(6), Semicolon, RightBrace>>

\* C25: when the condition is false and the then-branch is a block that
\* contains a block, the whole then-branch is skipped: parsing succeeds, the
\* program has the If and the statement after it only, an else after the
\* then-branch is taken, and without an else the If yields Nil.
C25_FalseSkipsNestedThen ==
    \A suf \in {<<>>, <<PrintKw, IntTok(7), Semicolon>>} :
        /\ tokens = <<IfKw, KeyWord("False")>> \o NestedThen \o suf
            => /\ ~ParseFailed
               /\ pc = "done" =>
                    results = <<NilVal>> \o (IF suf = <<>> THEN <<>>
                                             ELSE <<NumberVal(Integer(7))>>)
        /\ \A s2 \in Branches :
            tokens = <<IfKw, KeyWord("False")>> \o NestedThen \o <<Else>> \o s2.toks \o suf
            => /\ ~ParseFailed
               /\ pc = "done" =>
                    results = <<s2.v>> \o (IF suf = <<>> THEN <<>>
                                           ELSE <<NumberVal(Integer(7))>>)

\* C26: parsing the empty token sequence succeeds and returns no node: it
\* neither fails nor aborts.
C26_EmptyProgramParses ==
    tokens = <<>> => (~ParseFailed /\ vec = <<>>)

\* C27: parse terminates on every token sequence: no call of parse runs a
\* loop whose iterations return Ok and leave the cursor where it was.
C27_ParseTerminates == pc # "parse_diverge"

\* the parser with its cursor on the token of index c
ParserAt(c) == [Parser EXCEPT !.current = c]

\* C28: on a token sequence that is not empty the cursor is always the
\* index of a token, so peek reads inside the sequence, and it never
\* decreases; forward increments it by exactly 1 when it is not on the last
\* token and otherwise returns an error and leaves it unchanged.
C28_CursorInRange ==
    /\ [](Len(tokens) > 0 =>
            /\ current \in 0..(Len(tokens) - 1)
            /\ \A c \in 0..(Len(tokens) - 1) :
                forward(ParserAt(c)) =
                    IF c < Len(tokens) - 1
                    THEN [ok |-> TRUE, p |-> ParserAt(c + 1)]
                    ELSE [ok |-> FALSE, p |-> ParserAt(c)])
    /\ [][current' >= current]_vars

\* var x = 1; print x; was parsed: the cursor is on the last token, where
\* the last forward was refused
C28_Witness ==
    /\ pc = "done"
    /\ tokens = <<Var, x, Equal, IntTok(1), Semicolon, PrintKw, x, Semicolon>>
    /\ current = Len(tokens) - 1

\* the frames of a scope chain above the root
RECURSIVE ScopeDepth(_)
ScopeDepth(self) ==
    IF self.parent = <<>> THEN 0 ELSE 1 + ScopeDepth(self.parent[1])

\* the parser on the token of index j (from 1), k blocks below its scope
RECURSIVE Nested(_, _)
Nested(j, k) ==
    IF k = 0 THEN [Parser EXCEPT !.current = j - 1]
    ELSE forward_scope(Nested(j, k - 1))

\* a call that returns Ok leaves a scope chain of depth k
BalancedAt(r, k) == r.st = "ok" => ScopeDepth(r.p.scope) = k

\* C29: scope pushes and pops are balanced: whenever block returns Ok the
\* scope chain is as deep as it was when block was entered, an if statement
\* that skips a branch leaves the depth as it was, and between the
\* statements of the program and after a successful parse the scope is the
\* root scope, which has no parent.
C29_ScopesBalanced ==
    /\ pc \in {"program", "parsed", "done", "eval_panic"} => scope.parent = <<>>
    /\ pc = "program" =>
        \A j \in (current + 1)..Len(tokens), k \in 0..MaxDepth :
            /\ tokens[j] = LeftBrace => BalancedAt(block(Nested(j, k)), k)
            /\ tokens[j] = IfKw => BalancedAt(if_statement(Nested(j, k)), k)

\* { { } } was parsed to a block in a block, and the scope is the root scope
C29_Witness ==
    /\ pc = "done"
    /\ tokens = <<LeftBrace, LeftBrace, RightBrace, RightBrace>>
    /\ vec = <<Block(<<Block(<<>>)>>)>>
    /\ scope = RootScope

\* the conditions of Conditions that are a Nil, a Number and a String
NonBoolean == {<<KeyWord("Nil")>>, <<IntTok(0)>>, <<StringTok("a")>>}

====
